---- MODULE Spec2Model ----
(***************************************************************************)
(* Model of caffe2/operators/lstm_unit_op.h: the scalar helpers sigmoid    *)
(* and tanh, the kernels detail::LSTMUnit and detail::LSTMUnitGradient,    *)
(* and the two operators' RunOnDevice methods.                             *)
(*                                                                         *)
(* Values of the element type T are fixed-point numbers: the integer v     *)
(* stands for v / Scale.  Products and quotients round to the nearest      *)
(* representable value, symmetrically in the sign, as the host arithmetic  *)
(* does.  Buffers are functions from 0-based positions to values; the      *)
(* kernels' pointer parameters are offsets into them.                      *)
(***************************************************************************)
EXTENDS Integers, Sequences, FiniteSets, TLC

\* ------------------------------------------------------------------ bounds
MaxN == 2
MaxD == 2
MaxSeed == 2
MaxT == 2
MaxIter == 4

\* --------------------------------------------------------- element type T
Scale == 100

One == Scale

\* Rounding to the nearest integer of p / q (q > 0), symmetric in the sign.
Round(p, q) ==
  IF p >= 0 THEN (2 * p + q) \div (2 * q) ELSE -((q - 2 * p) \div (2 * q))

\* a * b on T
Mul(a, b) == Round(a * b, Scale)

\* a / b on T (b # 0)
Div(a, b) == IF b > 0 THEN Round(a * Scale, b) ELSE Round(-(a * Scale), -b)

EulerE == (2718 * Scale + 500) \div 1000

RECURSIVE ExpPos(_)
\* exp(x) for x >= 0: e * exp(x - 1) above 1, the Taylor polynomial below
ExpPos(x) ==
  IF x >= One
  THEN Mul(ExpPos(x - One), EulerE)
  ELSE LET x2 == Mul(x, x)
           x3 == Mul(x2, x)
           x4 == Mul(x3, x)
       IN One + x + x2 \div 2 + x3 \div 6 + x4 \div 24

\* exp of <cmath>
Exp(x) == IF x >= 0 THEN ExpPos(x) ELSE Div(One, ExpPos(-x))

\* return 1. / (1. + exp(-x));
sigmoid(x) == Div(One, One + Exp(-x))

\* return 2. * sigmoid(2. * x) - 1.;
tanh(x) == Mul(2 * One, sigmoid(Mul(2 * One, x))) - One

\* ----------------------------------------------------------------- state
VARIABLES
  N,        \* Input(CELL_T_M_1).dim(1)
  D,        \* Input(CELL_T_M_1).dim(2)
  G,        \* Input(GATES).dim(2)
  t,        \* the TIMESTEP input, an int32_t
  mem,      \* the tensors' data: buffer name -> (position -> value)
  pre,      \* mem as it was when the last run started
  run,      \* the last RunOnDevice: operator, outcome, kernel calls, resizes
  trace,    \* the kernel iterations of the last run, in execution order
  hist,     \* the cell outputs of the forward runs of the timestep loop
  work      \* the iterations handed to independent workers

vars == <<N, D, G, t, mem, pre, run, trace, hist, work>>

INT32_MAX == 2147483647

INT32_MIN == -2147483647 - 1

\* Buffers of one call.  C and H are outputs of LSTMUnit and inputs of
\* LSTMUnitGradient.
FwdInputs == {"C_prev", "X", "seqLengths"}

FwdOutputs == {"C", "H"}

GradInputs == {"C_prev", "X", "seqLengths", "C", "H", "C_diff", "H_diff"}

GradOutputs == {"C_prev_diff", "X_diff"}

\* The kernels' pointer parameters, as offsets from the buffers' starts.
Ptr0 ==
  [C_prev |-> 0, X |-> 0, C |-> 0, H |-> 0,
   C_diff |-> 0, H_diff |-> 0, X_diff |-> 0, C_prev_diff |-> 0]

\* One executed iteration: the positions it read and its stores in order.
Effect(reads, writes) == [reads |-> reads, writes |-> writes]

St(b, i, v) == [buf |-> b, idx |-> i, val |-> v]

RECURSIVE Commit(_, _)
\* memory after the stores of ws, first to last
Commit(m, ws) ==
  IF ws = <<>> THEN m
  ELSE Commit([m EXCEPT ![Head(ws).buf][Head(ws).idx] = Head(ws).val], Tail(ws))

\* ------------------------------------------------------- detail::LSTMUnit
\* LSTMUnitBody with the input and forget gates read from each other's block.
LSTMUnitBody_GatesSwapped(m, valid, Dd, d, p) ==
  IF ~valid
  THEN Effect({<<"C_prev", p.C_prev + d>>},
              << St("H", p.H + d, 0),
                 St("C", p.C + d, m.C_prev[p.C_prev + d]) >>)
  ELSE LET i == sigmoid(m.X[p.X + 1 * Dd + d])
           f == sigmoid(m.X[p.X + d])
           o == sigmoid(m.X[p.X + 2 * Dd + d])
           g == tanh(m.X[p.X + 3 * Dd + d])
           c_prev == m.C_prev[p.C_prev + d]
           c == Mul(f, c_prev) + Mul(i, g)
           tanh_c == tanh(c)
       IN Effect({<<"X", p.X + d>>, <<"X", p.X + 1 * Dd + d>>,
                  <<"X", p.X + 2 * Dd + d>>, <<"X", p.X + 3 * Dd + d>>,
                  <<"C_prev", p.C_prev + d>>},
                 << St("C", p.C + d, c), St("H", p.H + d, Mul(o, tanh_c)) >>)

\* The body of the d loop (lines 34-47) with the pointers at p.
LSTMUnitBody(m, valid, Dd, d, p) ==
  IF ~valid
  THEN Effect({<<"C_prev", p.C_prev + d>>},
              << St("H", p.H + d, 0),
                 St("C", p.C + d, m.C_prev[p.C_prev + d]) >>)
  ELSE LET i == sigmoid(m.X[p.X + d])
           f == sigmoid(m.X[p.X + 1 * Dd + d])
           o == sigmoid(m.X[p.X + 2 * Dd + d])
           g == tanh(m.X[p.X + 3 * Dd + d])
           c_prev == m.C_prev[p.C_prev + d]
           c == Mul(f, c_prev) + Mul(i, g)
           tanh_c == tanh(c)
       IN Effect({<<"X", p.X + d>>, <<"X", p.X + 1 * Dd + d>>,
                  <<"X", p.X + 2 * Dd + d>>, <<"X", p.X + 3 * Dd + d>>,
                  <<"C_prev", p.C_prev + d>>},
                 << St("C", p.C + d, c), St("H", p.H + d, Mul(o, tanh_c)) >>)

\* LSTMUnitAdvance without C_prev += D.
LSTMUnitAdvance_NoCPrev(p, Dd) ==
  [p EXCEPT !.X = @ + 4 * Dd, !.C = @ + Dd, !.H = @ + Dd]

\* LSTMUnitAdvance without H += D.
LSTMUnitAdvance_NoH(p, Dd) ==
  [p EXCEPT !.C_prev = @ + Dd, !.X = @ + 4 * Dd, !.C = @ + Dd]

\* C_prev += D; X += 4 * D; C += D; H += D;  (lines 49-52)
LSTMUnitAdvance(p, Dd) ==
  [p EXCEPT !.C_prev = @ + Dd, !.X = @ + 4 * Dd, !.C = @ + Dd, !.H = @ + Dd]

\* Valid with the boundary off by one: t <= seqLengths[n].
Valid_OffByOne(m, tt, n) == tt <= m.seqLengths[n]

\* Valid with the comparison made on unsigned 32-bit values.
Valid_Unsigned(m, tt, n) ==
  IF (tt < 0) = (m.seqLengths[n] < 0)
  THEN tt < m.seqLengths[n]
  ELSE m.seqLengths[n] < 0

\* const bool valid = t < seqLengths[n];  (lines 32, 72)
Valid(m, tt, n) == tt < m.seqLengths[n]

\* A kernel's progress: the memory and the iterations executed so far.
Step(s, n, d, e) ==
  [mem |-> Commit(s.mem, e.writes),
   trace |-> Append(s.trace,
               [n |-> n, d |-> d,
                reads |-> e.reads \cup {<<"seqLengths", n>>},
                writes |-> e.writes])]

RECURSIVE LSTMUnitInner(_, _, _, _, _, _)
\* for (int d = 0; d < D; ++d) { ... }
LSTMUnitInner(s, n, valid, Dd, d, p) ==
  IF d >= Dd THEN s
  ELSE LSTMUnitInner(Step(s, n, d, LSTMUnitBody(s.mem, valid, Dd, d, p)),
                     n, valid, Dd, d + 1, p)

RECURSIVE LSTMUnitOuter(_, _, _, _, _, _)
\* for (int n = 0; n < N; ++n) { ... }
LSTMUnitOuter(s, Nn, Dd, tt, n, p) ==
  IF n >= Nn THEN s
  ELSE LSTMUnitOuter(LSTMUnitInner(s, n, Valid(s.mem, tt, n), Dd, 0, p),
                     Nn, Dd, tt, n + 1, LSTMUnitAdvance(p, Dd))

\* LSTMUnit(N, D, t, C_prev, X, seqLengths, C, H, context) on memory m
LSTMUnit(Nn, Dd, tt, m) ==
  LSTMUnitOuter([mem |-> m, trace |-> <<>>], Nn, Dd, tt, 0, Ptr0)

\* ----------------------------------------------- detail::LSTMUnitGradient
\* LSTMUnitGradientBody whose frozen branch leaves g_diff unwritten.
LSTMUnitGradientBody_NoGZero(m, valid, Dd, d, p) ==
  LET c_prev_diff == p.C_prev_diff + d
      i_diff == p.X_diff + d
      f_diff == p.X_diff + 1 * Dd + d
      o_diff == p.X_diff + 2 * Dd + d
      g_diff == p.X_diff + 3 * Dd + d
  IN IF ~valid
     THEN Effect({<<"C_diff", p.C_diff + d>>},
                 << St("C_prev_diff", c_prev_diff, m.C_diff[p.C_diff + d]),
                    St("X_diff", i_diff, 0),
                    St("X_diff", f_diff, 0),
                    St("X_diff", o_diff, 0) >>)
     ELSE LET i == sigmoid(m.X[p.X + d])
              f == sigmoid(m.X[p.X + 1 * Dd + d])
              o == sigmoid(m.X[p.X + 2 * Dd + d])
              g == tanh(m.X[p.X + 3 * Dd + d])
              c_prev == m.C_prev[p.C_prev + d]
              c == m.C[p.C + d]
              tanh_c == tanh(c)
              c_term_diff ==
                m.C_diff[p.C_diff + d]
                  + Mul(Mul(m.H_diff[p.H_diff + d], o), One - Mul(tanh_c, tanh_c))
          IN Effect({<<"X", p.X + d>>, <<"X", p.X + 1 * Dd + d>>,
                     <<"X", p.X + 2 * Dd + d>>, <<"X", p.X + 3 * Dd + d>>,
                     <<"C_prev", p.C_prev + d>>, <<"C", p.C + d>>,
                     <<"C_diff", p.C_diff + d>>, <<"H_diff", p.H_diff + d>>},
                    << St("C_prev_diff", c_prev_diff, Mul(c_term_diff, f)),
                       St("X_diff", i_diff,
                          Mul(Mul(Mul(c_term_diff, g), i), One - i)),
                       St("X_diff", f_diff,
                          Mul(Mul(Mul(c_term_diff, c_prev), f), One - f)),
                       St("X_diff", o_diff,
                          Mul(Mul(Mul(m.H_diff[p.H_diff + d], tanh_c), o), One - o)),
                       St("X_diff", g_diff,
                          Mul(Mul(c_term_diff, i), One - Mul(g, g))) >>)

\* LSTMUnitGradientBody with o_diff computed from c_term_diff instead of
\* H_diff[d].
LSTMUnitGradientBody_ODiffCTerm(m, valid, Dd, d, p) ==
  LET c_prev_diff == p.C_prev_diff + d
      i_diff == p.X_diff + d
      f_diff == p.X_diff + 1 * Dd + d
      o_diff == p.X_diff + 2 * Dd + d
      g_diff == p.X_diff + 3 * Dd + d
  IN IF ~valid
     THEN Effect({<<"C_diff", p.C_diff + d>>},
                 << St("C_prev_diff", c_prev_diff, m.C_diff[p.C_diff + d]),
                    St("X_diff", i_diff, 0),
                    St("X_diff", f_diff, 0),
                    St("X_diff", o_diff, 0),
                    St("X_diff", g_diff, 0) >>)
     ELSE LET i == sigmoid(m.X[p.X + d])
              f == sigmoid(m.X[p.X + 1 * Dd + d])
              o == sigmoid(m.X[p.X + 2 * Dd + d])
              g == tanh(m.X[p.X + 3 * Dd + d])
              c_prev == m.C_prev[p.C_prev + d]
              c == m.C[p.C + d]
              tanh_c == tanh(c)
              c_term_diff ==
                m.C_diff[p.C_diff + d]
                  + Mul(Mul(m.H_diff[p.H_diff + d], o), One - Mul(tanh_c, tanh_c))
          IN Effect({<<"X", p.X + d>>, <<"X", p.X + 1 * Dd + d>>,
                     <<"X", p.X + 2 * Dd + d>>, <<"X", p.X + 3 * Dd + d>>,
                     <<"C_prev", p.C_prev + d>>, <<"C", p.C + d>>,
                     <<"C_diff", p.C_diff + d>>, <<"H_diff", p.H_diff + d>>},
                    << St("C_prev_diff", c_prev_diff, Mul(c_term_diff, f)),
                       St("X_diff", i_diff,
                          Mul(Mul(Mul(c_term_diff, g), i), One - i)),
                       St("X_diff", f_diff,
                          Mul(Mul(Mul(c_term_diff, c_prev), f), One - f)),
                       St("X_diff", o_diff,
                          Mul(Mul(Mul(c_term_diff, tanh_c), o), One - o)),
                       St("X_diff", g_diff,
                          Mul(Mul(c_term_diff, i), One - Mul(g, g))) >>)

\* LSTMUnitGradientBody with c read from H instead of C.
LSTMUnitGradientBody_CFromH(m, valid, Dd, d, p) ==
  LET c_prev_diff == p.C_prev_diff + d
      i_diff == p.X_diff + d
      f_diff == p.X_diff + 1 * Dd + d
      o_diff == p.X_diff + 2 * Dd + d
      g_diff == p.X_diff + 3 * Dd + d
  IN IF ~valid
     THEN Effect({<<"C_diff", p.C_diff + d>>},
                 << St("C_prev_diff", c_prev_diff, m.C_diff[p.C_diff + d]),
                    St("X_diff", i_diff, 0),
                    St("X_diff", f_diff, 0),
                    St("X_diff", o_diff, 0),
                    St("X_diff", g_diff, 0) >>)
     ELSE LET i == sigmoid(m.X[p.X + d])
              f == sigmoid(m.X[p.X + 1 * Dd + d])
              o == sigmoid(m.X[p.X + 2 * Dd + d])
              g == tanh(m.X[p.X + 3 * Dd + d])
              c_prev == m.C_prev[p.C_prev + d]
              c == m.H[p.H + d]
              tanh_c == tanh(c)
              c_term_diff ==
                m.C_diff[p.C_diff + d]
                  + Mul(Mul(m.H_diff[p.H_diff + d], o), One - Mul(tanh_c, tanh_c))
          IN Effect({<<"X", p.X + d>>, <<"X", p.X + 1 * Dd + d>>,
                     <<"X", p.X + 2 * Dd + d>>, <<"X", p.X + 3 * Dd + d>>,
                     <<"C_prev", p.C_prev + d>>, <<"H", p.H + d>>,
                     <<"C_diff", p.C_diff + d>>, <<"H_diff", p.H_diff + d>>},
                    << St("C_prev_diff", c_prev_diff, Mul(c_term_diff, f)),
                       St("X_diff", i_diff,
                          Mul(Mul(Mul(c_term_diff, g), i), One - i)),
                       St("X_diff", f_diff,
                          Mul(Mul(Mul(c_term_diff, c_prev), f), One - f)),
                       St("X_diff", o_diff,
                          Mul(Mul(Mul(m.H_diff[p.H_diff + d], tanh_c), o), One - o)),
                       St("X_diff", g_diff,
                          Mul(Mul(c_term_diff, i), One - Mul(g, g))) >>)

\* The body of the d loop (lines 74-99) with the pointers at p.
LSTMUnitGradientBody(m, valid, Dd, d, p) ==
  LET c_prev_diff == p.C_prev_diff + d
      i_diff == p.X_diff + d
      f_diff == p.X_diff + 1 * Dd + d
      o_diff == p.X_diff + 2 * Dd + d
      g_diff == p.X_diff + 3 * Dd + d
  IN IF ~valid
     THEN Effect({<<"C_diff", p.C_diff + d>>},
                 << St("C_prev_diff", c_prev_diff, m.C_diff[p.C_diff + d]),
                    St("X_diff", i_diff, 0),
                    St("X_diff", f_diff, 0),
                    St("X_diff", o_diff, 0),
                    St("X_diff", g_diff, 0) >>)
     ELSE LET i == sigmoid(m.X[p.X + d])
              f == sigmoid(m.X[p.X + 1 * Dd + d])
              o == sigmoid(m.X[p.X + 2 * Dd + d])
              g == tanh(m.X[p.X + 3 * Dd + d])
              c_prev == m.C_prev[p.C_prev + d]
              c == m.C[p.C + d]
              tanh_c == tanh(c)
              c_term_diff ==
                m.C_diff[p.C_diff + d]
                  + Mul(Mul(m.H_diff[p.H_diff + d], o), One - Mul(tanh_c, tanh_c))
          IN Effect({<<"X", p.X + d>>, <<"X", p.X + 1 * Dd + d>>,
                     <<"X", p.X + 2 * Dd + d>>, <<"X", p.X + 3 * Dd + d>>,
                     <<"C_prev", p.C_prev + d>>, <<"C", p.C + d>>,
                     <<"C_diff", p.C_diff + d>>, <<"H_diff", p.H_diff + d>>},
                    << St("C_prev_diff", c_prev_diff, Mul(c_term_diff, f)),
                       St("X_diff", i_diff,
                          Mul(Mul(Mul(c_term_diff, g), i), One - i)),
                       St("X_diff", f_diff,
                          Mul(Mul(Mul(c_term_diff, c_prev), f), One - f)),
                       St("X_diff", o_diff,
                          Mul(Mul(Mul(m.H_diff[p.H_diff + d], tanh_c), o), One - o)),
                       St("X_diff", g_diff,
                          Mul(Mul(c_term_diff, i), One - Mul(g, g))) >>)

\* LSTMUnitGradientAdvance with X_diff advanced by D instead of 4 * D.
LSTMUnitGradientAdvance_XDiffStride(p, Dd) ==
  [p EXCEPT !.C_prev = @ + Dd, !.X = @ + 4 * Dd, !.C = @ + Dd, !.H = @ + Dd,
            !.C_diff = @ + Dd, !.H_diff = @ + Dd, !.X_diff = @ + Dd,
            !.C_prev_diff = @ + Dd]

\* C_prev += D; X += 4 * D; C += D; H += D; C_diff += D; H_diff += D;
\* X_diff += 4 * D; C_prev_diff += D;  (lines 101-108)
LSTMUnitGradientAdvance(p, Dd) ==
  [p EXCEPT !.C_prev = @ + Dd, !.X = @ + 4 * Dd, !.C = @ + Dd, !.H = @ + Dd,
            !.C_diff = @ + Dd, !.H_diff = @ + Dd, !.X_diff = @ + 4 * Dd,
            !.C_prev_diff = @ + Dd]

RECURSIVE LSTMUnitGradientInner(_, _, _, _, _, _)
\* for (int d = 0; d < D; ++d) { ... }
LSTMUnitGradientInner(s, n, valid, Dd, d, p) ==
  IF d >= Dd THEN s
  ELSE LSTMUnitGradientInner(
         Step(s, n, d, LSTMUnitGradientBody(s.mem, valid, Dd, d, p)),
         n, valid, Dd, d + 1, p)

RECURSIVE LSTMUnitGradientOuter(_, _, _, _, _, _)
\* for (int n = 0; n < N; ++n) { ... }
LSTMUnitGradientOuter(s, Nn, Dd, tt, n, p) ==
  IF n >= Nn THEN s
  ELSE LSTMUnitGradientOuter(
         LSTMUnitGradientInner(s, n, Valid(s.mem, tt, n), Dd, 0, p),
         Nn, Dd, tt, n + 1, LSTMUnitGradientAdvance(p, Dd))

\* LSTMUnitGradient(N, D, t, C_prev, X, seqLengths, C, H, C_diff, H_diff,
\*                  C_prev_diff, X_diff, context) on memory m
LSTMUnitGradient(Nn, Dd, tt, m) ==
  LSTMUnitGradientOuter([mem |-> m, trace |-> <<>>], Nn, Dd, tt, 0, Ptr0)

\* ------------------------------------------------------------ the inputs
\* Tensor contents are drawn from a palette of values of T, a different run
\* of it for every seed and buffer.
Pal == <<0, 100, -100, 50, 200, -150, 30>>

Gen(seed, salt, k) == Pal[((2 * seed + salt + k) % Len(Pal)) + 1]

GenBuf(len, seed, salt) == [k \in 0 .. len - 1 |-> Gen(seed, salt, k)]

TVals == {INT32_MIN, -2, 0, 1, 2, INT32_MAX}

\* Sequence lengths: a run of the palette, constant (stride 0) or varying
\* (stride 1) over the batch.
LenPal == <<-1, 0, 1, 2>>

GenLens(Nn, first, stride) ==
  [n \in 0 .. Nn - 1 |-> LenPal[((first + stride * n) % Len(LenPal)) + 1]]

LenChoices(Nn) ==
  {GenLens(Nn, first, stride) : first \in 0 .. Len(LenPal) - 1, stride \in {0, 1}}

GateDims(Dd) == {4 * Dd - 1, 4 * Dd, 4 * Dd + 1}

\* Storage of the output tensors: room for the largest batch, so that a
\* store beyond N * D lands in the model.
Room == MaxN * MaxD

Memory(Nn, Dd, Gg, lens, seed) ==
  [C_prev      |-> GenBuf(Nn * Dd, seed, 0),
   X           |-> GenBuf(Nn * Gg, seed, 1),
   seqLengths  |-> lens,
   C           |-> GenBuf(Room, seed, 4),
   H           |-> GenBuf(Room, seed, 5),
   C_diff      |-> GenBuf(Nn * Dd, seed, 2),
   H_diff      |-> GenBuf(Nn * Dd, seed, 3),
   C_prev_diff |-> GenBuf(Room, seed, 6),
   X_diff      |-> GenBuf(4 * Room, seed, 3)]

Idle == [op |-> "none", status |-> "idle", calls |-> 0, resized |-> {}]

NoWork == [kernel |-> "none", pending |-> {}, local |-> <<>>]

Init ==
  /\ N \in 1 .. MaxN
  /\ D \in 1 .. MaxD
  /\ G \in GateDims(D)
  /\ t \in TVals
  /\ \E lens \in LenChoices(N), seed \in 0 .. MaxSeed :
       mem = Memory(N, D, G, lens, seed)
  /\ pre = mem
  /\ run = Idle
  /\ trace = <<>>
  /\ hist = <<>>
  /\ work = NoWork

\* ------------------------------------------------------ the two operators
\* The check made with CHECK_LE.
CheckEq_Le(a, b) == a <= b

\* CHECK_EQ(4 * D, G)
CheckEq(a, b) == a = b

\* LSTMUnitOp::RunOnDevice
LSTMUnitOp_RunOnDevice ==
  /\ run.status # "fatal"
  /\ work = NoWork
  /\ pre' = mem
  /\ IF ~CheckEq(4 * D, G)
     THEN /\ run' = [op |-> "LSTMUnitOp", status |-> "fatal", calls |-> 0,
                     resized |-> {}]
          /\ trace' = <<>>
          /\ mem' = mem
     ELSE LET r == LSTMUnit(N, D, t, mem)
          IN /\ mem' = r.mem
             /\ trace' = r.trace
             /\ run' = [op |-> "LSTMUnitOp", status |-> "returned", calls |-> 1,
                        resized |-> {<<"C", <<1, N, D>>>>, <<"H", <<1, N, D>>>>}]
  /\ UNCHANGED <<N, D, G, t, hist, work>>

\* LSTMUnitGradientOp::RunOnDevice
LSTMUnitGradientOp_RunOnDevice ==
  /\ run.status # "fatal"
  /\ work = NoWork
  /\ pre' = mem
  /\ IF ~CheckEq(4 * D, G)
     THEN /\ run' = [op |-> "LSTMUnitGradientOp", status |-> "fatal",
                     calls |-> 0, resized |-> {}]
          /\ trace' = <<>>
          /\ mem' = mem
     ELSE LET r == LSTMUnitGradient(N, D, t, mem)
          IN /\ mem' = r.mem
             /\ trace' = r.trace
             /\ run' = [op |-> "LSTMUnitGradientOp", status |-> "returned",
                        calls |-> 1,
                        resized |-> {<<"C_prev_diff", <<1, N, D>>>>,
                                     <<"X_diff", <<1, N, G>>>>}]
  /\ UNCHANGED <<N, D, G, t, hist, work>>

Next == LSTMUnitOp_RunOnDevice \/ LSTMUnitGradientOp_RunOnDevice

Spec == Init /\ [][Next]_vars

\* ------------------------------------------------- properties of one call
FwdRan == run.op = "LSTMUnitOp" /\ run.status = "returned"

GradRan == run.op = "LSTMUnitGradientOp" /\ run.status = "returned"

Seqs == 0 .. N - 1

Feats == 0 .. D - 1

\* position of feature d of sequence n in an [N, D] buffer
Pos(n, d) == n * D + d

\* position of feature d of gate k of sequence n in an [N, 4D] buffer
GatePos(n, k, d) == n * 4 * D + k * D + d

Frozen(n) == t >= pre.seqLengths[n]

\* Memory m with other contents, of the same size, in the buffers bufs.
OtherInputs(m, bufs, seed) ==
  [b \in DOMAIN m |->
     IF b \in bufs THEN [k \in DOMAIN m[b] |-> Gen(seed, 5, k)] ELSE m[b]]

\* C1: after LSTMUnit, every feature d of every sequence n with
\* t >= seqLengths[n] has H[n*D+d] = 0 and C[n*D+d] = C_prev[n*D+d], for the
\* gates of the run and for any other gates.
C1_ForwardMasking ==
  FwdRan =>
    \A m \in {mem} \cup {LSTMUnit(N, D, t, OtherInputs(pre, {"X"}, seed)).mem :
                           seed \in 0 .. MaxSeed} :
      \A n \in Seqs, d \in Feats :
        Frozen(n) => /\ m.H[Pos(n, d)] = 0
                     /\ m.C[Pos(n, d)] = pre.C_prev[Pos(n, d)]

\* A forward run at the boundary t = seqLengths[n] of a sequence whose
\* previous cell state is not zero, next to a sequence that is still valid.
C1_Witness ==
  /\ FwdRan
  /\ \E n \in Seqs : /\ t = pre.seqLengths[n]
                     /\ \E d \in Feats : pre.C_prev[Pos(n, d)] # 0
  /\ \E n \in Seqs : ~Frozen(n)

\* C2: after LSTMUnitGradient, every feature d of every sequence n with
\* t >= seqLengths[n] has C_prev_diff[n*D+d] = C_diff[n*D+d] and the four
\* gate gradients X_diff[n*4D + k*D + d], k in 0..3, equal to 0, for the X,
\* C_prev, C, H and H_diff of the run and for any others.
C2_GradientMasking ==
  GradRan =>
    \A m \in {mem} \cup {LSTMUnitGradient(N, D, t,
                           OtherInputs(pre, {"X", "C_prev", "C", "H", "H_diff"},
                                       seed)).mem :
                           seed \in 0 .. MaxSeed} :
      \A n \in Seqs, d \in Feats :
        Frozen(n) => /\ m.C_prev_diff[Pos(n, d)] = pre.C_diff[Pos(n, d)]
                     /\ \A k \in 0 .. 3 : m.X_diff[GatePos(n, k, d)] = 0

\* A gradient run with a frozen sequence whose upstream gradients are not
\* zero, next to a sequence that is still valid.
C2_Witness ==
  /\ GradRan
  /\ \E n \in Seqs : /\ Frozen(n)
                     /\ \E d \in Feats : /\ pre.C_diff[Pos(n, d)] # 0
                                         /\ pre.H_diff[Pos(n, d)] # 0
  /\ \E n \in Seqs : ~Frozen(n)

\* The recurrence of the claim, gates in the order (i, f, o, g).
RefCell(m, n, d) ==
  LET i == sigmoid(m.X[GatePos(n, 0, d)])
      f == sigmoid(m.X[GatePos(n, 1, d)])
      g == tanh(m.X[GatePos(n, 3, d)])
  IN Mul(f, m.C_prev[Pos(n, d)]) + Mul(i, g)

RefHidden(m, n, d) ==
  Mul(sigmoid(m.X[GatePos(n, 2, d)]), tanh(RefCell(m, n, d)))

\* C3: after LSTMUnit, every feature d of every sequence n with
\* t < seqLengths[n] has C[n*D+d] = f*c_prev + i*g and H[n*D+d] = o*tanh(C),
\* the gates read in the order (i, f, o, g).
C3_ForwardRecurrence ==
  FwdRan =>
    \A n \in Seqs, d \in Feats :
      ~Frozen(n) => /\ mem.C[Pos(n, d)] = RefCell(pre, n, d)
                    /\ mem.H[Pos(n, d)] = RefHidden(pre, n, d)

\* A forward run at the last valid step t = seqLengths[n] - 1 of a sequence
\* that is not the first of the batch, with a hidden output that is not zero.
C3_Witness ==
  /\ FwdRan
  /\ \E n \in Seqs : /\ n > 0
                     /\ t = pre.seqLengths[n] - 1
                     /\ \E d \in Feats : mem.H[Pos(n, d)] # 0

\* The backward equations of the claim for feature d of sequence n, with
\* c read from the C buffer of memory m, as a function gate -> gradient
\* (gate 4 is C_prev_diff).
RefGrad(m, n, d) ==
  LET i == sigmoid(m.X[GatePos(n, 0, d)])
      f == sigmoid(m.X[GatePos(n, 1, d)])
      o == sigmoid(m.X[GatePos(n, 2, d)])
      g == tanh(m.X[GatePos(n, 3, d)])
      c_prev == m.C_prev[Pos(n, d)]
      tanh_c == tanh(m.C[Pos(n, d)])
      H_d == m.H_diff[Pos(n, d)]
      c_term == m.C_diff[Pos(n, d)] + Mul(Mul(H_d, o), One - Mul(tanh_c, tanh_c))
  IN <<Mul(Mul(Mul(c_term, g), i), One - i),
       Mul(Mul(Mul(c_term, c_prev), f), One - f),
       Mul(Mul(Mul(H_d, tanh_c), o), One - o),
       Mul(Mul(c_term, i), One - Mul(g, g)),
       Mul(c_term, f)>>

\* The gradients LSTMUnitGradient leaves for feature d of sequence n.
GradOut(m, n, d) ==
  <<m.X_diff[GatePos(n, 0, d)], m.X_diff[GatePos(n, 1, d)],
    m.X_diff[GatePos(n, 2, d)], m.X_diff[GatePos(n, 3, d)],
    m.C_prev_diff[Pos(n, d)]>>

\* Other contents of a buffer of len values.
OtherBufs(len) == {GenBuf(len, seed, salt) : seed \in 0 .. MaxSeed, salt \in {0, 5}}

\* C4: after LSTMUnitGradient, every feature d of every sequence n with
\* t < seqLengths[n] has C_prev_diff = c_term*f, i_diff = c_term*g*i*(1-i) at
\* offset d, f_diff = c_term*c_prev*f*(1-f) at D+d, o_diff =
\* H_diff*tanh_c*o*(1-o) at 2D+d and g_diff = c_term*i*(1-g*g) at 3D+d, with
\* c_term = C_diff + H_diff*o*(1-tanh_c^2); and o_diff is the same for any
\* other C_diff.
C4_BackwardEquations ==
  GradRan =>
    /\ \A n \in Seqs, d \in Feats :
         ~Frozen(n) => GradOut(mem, n, d) = RefGrad(pre, n, d)
    /\ \A cd \in OtherBufs(N * D) :
         LET alt == LSTMUnitGradient(N, D, t, [pre EXCEPT !.C_diff = cd]).mem
         IN \A n \in Seqs, d \in Feats :
              ~Frozen(n) => alt.X_diff[GatePos(n, 2, d)] = mem.X_diff[GatePos(n, 2, d)]

\* A gradient run on a valid sequence, not the first of the batch, whose
\* five gradients are all non-zero and whose o_diff differs from the others.
C4_Witness ==
  /\ GradRan
  /\ \E n \in Seqs, d \in Feats :
       /\ n > 0
       /\ ~Frozen(n)
       /\ \A k \in 1 .. 5 : GradOut(mem, n, d)[k] # 0
       /\ pre.C_diff[Pos(n, d)] # 0
       /\ GradOut(mem, n, d)[3] # GradOut(mem, n, d)[1]

\* C5: a RunOnDevice of either operator with 4*D # G ends in the fatal check
\* failure with no kernel call, no output resized and nothing written; with
\* 4*D = G it calls the kernel once and returns true.
C5_GateWidthCheck ==
  run.op # "none" =>
    IF 4 * D # G
    THEN /\ run.status = "fatal"
         /\ run.calls = 0
         /\ run.resized = {}
         /\ trace = <<>>
         /\ mem = pre
    ELSE /\ run.status = "returned"
         /\ run.calls = 1

\* The gradient operator run on gates wider than 4*D.
C5_Witness ==
  /\ run.op = "LSTMUnitGradientOp"
  /\ run.status = "fatal"
  /\ G > 4 * D

\* The iterations of sequence n in the last run took the frozen branch:
\* they read no gate.
TookFrozenBranch(n) ==
  \A k \in 1 .. Len(trace) :
    trace[k].n = n => \A r \in trace[k].reads : r[1] # "X"

FrozenOutputs(n) ==
  /\ TookFrozenBranch(n)
  /\ FwdRan => \A d \in Feats : /\ mem.H[Pos(n, d)] = 0
                                /\ mem.C[Pos(n, d)] = pre.C_prev[Pos(n, d)]
  /\ GradRan => \A d \in Feats :
                  /\ mem.C_prev_diff[Pos(n, d)] = pre.C_diff[Pos(n, d)]
                  /\ \A k \in 0 .. 3 : mem.X_diff[GatePos(n, k, d)] = 0

NoError == (run.op # "none" /\ 4 * D = G) => run.status = "returned"

\* C6 as claimed: a sequence with a negative length is frozen in both
\* kernels for whatever timestep t, all sequences are frozen when t is at or
\* beyond every length, and no error is raised.
C6_AsClaimed ==
  /\ NoError
  /\ (FwdRan \/ GradRan) =>
       /\ \A n \in Seqs : pre.seqLengths[n] < 0 => FrozenOutputs(n)
       /\ (\A n \in Seqs : t >= pre.seqLengths[n]) => \A n \in Seqs : FrozenOutputs(n)

\* C6 as amended: a sequence with a negative length is frozen in both kernels
\* for every timestep t >= seqLengths[n], so for every t >= 0, and takes the
\* valid branch for t < seqLengths[n]; all sequences are frozen when t is
\* at or beyond every length; no error is raised.
C6_NegativeLengths ==
  /\ NoError
  /\ (FwdRan \/ GradRan) =>
       /\ \A n \in Seqs :
            pre.seqLengths[n] < 0 =>
              /\ (t >= 0 \/ t >= pre.seqLengths[n]) => FrozenOutputs(n)
              /\ t < pre.seqLengths[n] => ~TookFrozenBranch(n)
       /\ (\A n \in Seqs : t >= pre.seqLengths[n]) => \A n \in Seqs : FrozenOutputs(n)

\* A gradient run at t = 0 over a sequence of negative length whose upstream
\* gradient is not zero, next to a valid sequence.
C6_Witness ==
  /\ GradRan
  /\ t = 0
  /\ \E n \in Seqs : /\ pre.seqLengths[n] < 0
                     /\ \E d \in Feats : pre.H_diff[Pos(n, d)] # 0
  /\ \E n \in Seqs : ~Frozen(n)

\* The stores of the last run, each with its place in the run.
Stores ==
  {<<k, j>> \in (1 .. Len(trace)) \X (1 .. 5) : j <= Len(trace[k].writes)}

StoreAt(kj) == trace[kj[1]].writes[kj[2]]

WriteCount(b, pos) ==
  Cardinality({kj \in Stores : StoreAt(kj).buf = b /\ StoreAt(kj).idx = pos})

\* Memory m with other contents in the output buffers outs.
Scrambled(m, outs) ==
  [b \in DOMAIN m |->
     IF b \in outs THEN [k \in DOMAIN m[b] |-> m[b][k] + One] ELSE m[b]]

\* The last run stored once to each of the first size[b] positions of every
\* buffer b of outs and nowhere else, read only buffers of ins, left them as
\* they were, and res, the outputs computed from other contents of outs, are
\* the same.
Footprint(ins, outs, size, res) ==
  /\ \A kj \in Stores :
       /\ StoreAt(kj).buf \in outs
       /\ StoreAt(kj).idx \in 0 .. size[StoreAt(kj).buf] - 1
  /\ \A b \in outs :
       /\ \A pos \in 0 .. size[b] - 1 : WriteCount(b, pos) = 1
       /\ \A pos \in DOMAIN mem[b] : pos >= size[b] => mem[b][pos] = pre[b][pos]
       /\ \A pos \in 0 .. size[b] - 1 : res[b][pos] = mem[b][pos]
  /\ \A k \in 1 .. Len(trace) : \A r \in trace[k].reads : r[1] \in ins
  /\ \A b \in ins : mem[b] = pre[b]

\* C8: LSTMUnit stores once to each of the positions 0..N*D-1 of C and of H
\* and nowhere else; LSTMUnitGradient stores once to each of 0..N*D-1 of
\* C_prev_diff and of 0..4*N*D-1 of X_diff and nowhere else; neither changes
\* an input buffer nor reads a value of an output buffer.
C8_MemoryFootprint ==
  /\ FwdRan =>
       Footprint(FwdInputs, FwdOutputs, [C |-> N * D, H |-> N * D],
                 LSTMUnit(N, D, t, Scrambled(pre, FwdOutputs)).mem)
  /\ GradRan =>
       Footprint(GradInputs, GradOutputs,
                 [C_prev_diff |-> N * D, X_diff |-> 4 * N * D],
                 LSTMUnitGradient(N, D, t, Scrambled(pre, GradOutputs)).mem)

\* A gradient run over a batch of several sequences of several features,
\* smaller than the output storage, with valid and frozen sequences.
C8_Witness ==
  /\ GradRan
  /\ N > 1 /\ D > 1
  /\ \E n \in Seqs : Frozen(n)
  /\ \E n \in Seqs : ~Frozen(n)
  /\ Len(trace) = N * D

\* The valid sequences' gradients of memory a and memory b agree.
SameValidGrads(a, b) ==
  \A n \in Seqs, d \in Feats : ~Frozen(n) => GradOut(a, n, d) = GradOut(b, n, d)

\* C10 as claimed: on a valid sequence C_prev_diff and X_diff are the same
\* for whatever contents the C and H buffers passed to the call hold.
C10_AsClaimed ==
  GradRan =>
    \A cb \in OtherBufs(Room), hb \in OtherBufs(Room) :
      SameValidGrads(LSTMUnitGradient(N, D, t, [pre EXCEPT !.C = cb, !.H = hb]).mem,
                     mem)

\* C10 as amended: on a valid sequence LSTMUnitGradient recomputes i, f, o, g
\* from X and takes c_prev from C_prev, but reads c from the C buffer
\* (tanh_c = tanh(C[n*D+d])); C_prev_diff and X_diff are the same for
\* whatever contents the H buffer holds, and are those of c = f*c_prev + i*g
\* when C holds LSTMUnit's output for the same inputs.
C10_Recomputation ==
  GradRan =>
    /\ \A hb \in OtherBufs(Room) :
         SameValidGrads(LSTMUnitGradient(N, D, t, [pre EXCEPT !.H = hb]).mem, mem)
    /\ \A n \in Seqs, d \in Feats :
         ~Frozen(n) =>
           /\ GradOut(mem, n, d) = RefGrad(pre, n, d)
           /\ pre.C[Pos(n, d)] = LSTMUnit(N, D, t, pre).mem.C[Pos(n, d)] =>
                GradOut(mem, n, d)
                  = RefGrad([pre EXCEPT !.C[Pos(n, d)] = RefCell(pre, n, d)], n, d)

\* A gradient run after the forward run of the same inputs, on a valid
\* sequence with a hidden output and gradients that are not zero.
C10_Witness ==
  /\ GradRan
  /\ \E n \in Seqs, d \in Feats :
       /\ ~Frozen(n)
       /\ pre.C[Pos(n, d)] = RefCell(pre, n, d)
       /\ pre.H[Pos(n, d)] = RefHidden(pre, n, d)
       /\ pre.H[Pos(n, d)] # 0
       /\ \A k \in 1 .. 5 : GradOut(mem, n, d)[k] # 0

\* ------------------------------------------------------ the timestep loop
\* The caller feeds the cell output of step t to step t + 1 as C_prev, with
\* new gates, and keeps the sequence lengths.
NextTimestep ==
  /\ FwdRan
  /\ work = NoWork
  /\ t >= 0 /\ t < MaxT
  /\ \E seed \in 0 .. MaxSeed :
       mem' = [mem EXCEPT !.C_prev = [k \in 0 .. N * D - 1 |-> mem.C[k]],
                          !.X = GenBuf(N * G, seed, 1)]
  /\ t' = t + 1
  /\ hist' = Append(hist, [t |-> t, C_prev |-> mem.C_prev, C |-> mem.C])
  /\ run' = Idle
  /\ pre' = mem'
  /\ trace' = <<>>
  /\ UNCHANGED <<N, D, G, work>>

InitSteps == Init /\ t = 0 /\ G = 4 * D

NextSteps == LSTMUnitOp_RunOnDevice \/ NextTimestep

StepSpec == InitSteps /\ [][NextSteps]_vars

\* The cell state that entered step 0.
InitialCell == IF hist = <<>> THEN pre.C_prev ELSE hist[1].C_prev

\* The cell state after step k of an earlier step of the loop.
CellAfter(k) == hist[k + 1].C

\* C9: in the loop t = 0, 1, 2, ... with fixed lengths, after any step
\* t >= seqLengths[n] the cell state of sequence n is the one after step
\* seqLengths[n] - 1 (the initial one when seqLengths[n] <= 0) and H is zero,
\* whatever the gates of the later steps; a sequence frozen at a step is
\* frozen at every later step.
C9_StateFreezing ==
  /\ \A k \in 1 .. Len(hist) :
       /\ hist[k].t = k - 1
       /\ t > hist[k].t
  /\ FwdRan =>
       \A n \in Seqs, d \in Feats :
         Frozen(n) =>
           /\ mem.H[Pos(n, d)] = 0
           /\ mem.C[Pos(n, d)]
                = IF pre.seqLengths[n] <= 0
                  THEN InitialCell[Pos(n, d)]
                  ELSE CellAfter(pre.seqLengths[n] - 1)[Pos(n, d)]
           /\ \A k \in 1 .. Len(hist) :
                hist[k].t >= pre.seqLengths[n] =>
                  mem.C[Pos(n, d)] = hist[k].C[Pos(n, d)]

\* Step 2 of the loop with a sequence, not the first of the batch, that
\* ended after step 0 with a cell state other than the initial one, other
\* than zero and other than the cell state of the first sequence.
C9_Witness ==
  /\ FwdRan
  /\ t = 2
  /\ \E n \in Seqs, d \in Feats :
       /\ n > 0
       /\ pre.seqLengths[n] = 1
       /\ mem.C[Pos(n, d)] # InitialCell[Pos(n, d)]
       /\ mem.C[Pos(n, d)] # 0
       /\ mem.C[Pos(n, d)] # mem.C[Pos(0, d)]
       /\ hist[2].C[Pos(n, d)] = mem.C[Pos(n, d)]

\* -------------------------------------------------- independent workers
\* The iterations (n, d) of one kernel call handed to workers in any order:
\* a worker loads an iteration's inputs and computes its stores, and commits
\* them in a later step.
Workers == {1, 2}

RECURSIVE PtrAt(_, _)
\* the kernel's pointers in the iterations of sequence n
PtrAt(kernel, n) ==
  IF n = 0 THEN Ptr0
  ELSE IF kernel = "LSTMUnit"
       THEN LSTMUnitAdvance(PtrAt(kernel, n - 1), D)
       ELSE LSTMUnitGradientAdvance(PtrAt(kernel, n - 1), D)

ParStart(kernel) ==
  /\ work = NoWork
  /\ run.op = "none"
  /\ CheckEq(4 * D, G)
  /\ N * D <= MaxIter
  /\ work' = [kernel |-> kernel, pending |-> Seqs \X Feats,
              local |-> [w \in Workers |-> <<>>]]
  /\ pre' = mem
  /\ UNCHANGED <<N, D, G, t, mem, run, trace, hist>>

ParLoad(w) ==
  /\ work.kernel # "none"
  /\ work.local[w] = <<>>
  /\ \E nd \in work.pending :
       LET n == nd[1]
           d == nd[2]
           p == PtrAt(work.kernel, n)
           e == IF work.kernel = "LSTMUnit"
                THEN LSTMUnitBody(mem, Valid(mem, t, n), D, d, p)
                ELSE LSTMUnitGradientBody(mem, Valid(mem, t, n), D, d, p)
       IN work' = [work EXCEPT
                     !.pending = @ \ {nd},
                     !.local[w] = << [n |-> n, d |-> d,
                                      reads |-> e.reads \cup {<<"seqLengths", n>>},
                                      writes |-> e.writes] >>]
  /\ UNCHANGED <<N, D, G, t, mem, pre, run, trace, hist>>

ParStore(w) ==
  /\ work.kernel # "none"
  /\ work.local[w] # <<>>
  /\ mem' = Commit(mem, work.local[w][1].writes)
  /\ work' = [work EXCEPT !.local[w] = <<>>]
  /\ UNCHANGED <<N, D, G, t, pre, run, trace, hist>>

InitPar == Init

NextPar ==
  \/ \E kernel \in {"LSTMUnit", "LSTMUnitGradient"} : ParStart(kernel)
  \/ \E w \in Workers : ParLoad(w)
  \/ \E w \in Workers : ParStore(w)

ParSpec == InitPar /\ [][NextPar]_vars

ParDone ==
  /\ work.kernel # "none"
  /\ work.pending = {}
  /\ \A w \in Workers : work.local[w] = <<>>

\* The positions the iteration (n, d) of a kernel may read and store to.
OwnReads(kernel, n, d) ==
  {<<"seqLengths", n>>}
    \cup {<<"X", GatePos(n, k, d)>> : k \in 0 .. 3}
    \cup {<<b, Pos(n, d)>> :
            b \in (IF kernel = "LSTMUnit" THEN FwdInputs ELSE GradInputs)
                    \ {"X", "seqLengths"}}

OwnStores(kernel, n, d) ==
  IF kernel = "LSTMUnit"
  THEN {<<"C", Pos(n, d)>>, <<"H", Pos(n, d)>>}
  ELSE {<<"C_prev_diff", Pos(n, d)>>}
         \cup {<<"X_diff", GatePos(n, k, d)>> : k \in 0 .. 3}

\* C7: in both kernels the iteration (n, d) reads only t, seqLengths[n] and
\* input positions of (n, d) and stores only to output positions of (n, d);
\* the iterations executed in any order and interleaving by independent
\* workers leave the outputs of the sequential loops.
C7_Independence ==
  /\ work.kernel # "none" =>
       \A w \in Workers :
         work.local[w] # <<>> =>
           LET e == work.local[w][1]
           IN /\ e.reads \subseteq OwnReads(work.kernel, e.n, e.d)
              /\ \A j \in 1 .. Len(e.writes) :
                   <<e.writes[j].buf, e.writes[j].idx>>
                     \in OwnStores(work.kernel, e.n, e.d)
  /\ ParDone =>
       mem = IF work.kernel = "LSTMUnit"
             THEN LSTMUnit(N, D, t, pre).mem
             ELSE LSTMUnitGradient(N, D, t, pre).mem

\* All iterations of a gradient call over several sequences of several
\* features, frozen and valid, committed by the workers, the last of them an
\* iteration of the first sequence.
C7_Witness ==
  /\ work.kernel = "LSTMUnitGradient"
  /\ work.pending = {}
  /\ work.local[1] = <<>>
  /\ work.local[2] # <<>>
  /\ work.local[2][1].n = 0
  /\ N > 1 /\ D > 1
  /\ \E n \in Seqs : Frozen(n)
  /\ \E n \in Seqs : ~Frozen(n)

====
